---------------------------- MODULE Spec2Model ----------------------------
(***************************************************************************)
(* Model of src/app.py: colour extraction (extract_colors_kmeans), palette *)
(* ordering (auto_sort_colors), ramp / JSON export and the session palette *)
(* edited by the Streamlit callbacks.                                      *)
(***************************************************************************)
EXTENDS Integers, Sequences, FiniteSets, Bags, TLC

VARIABLES
    keys,           \* the sort keys of the colours in play, computed once
    p_in,           \* PaletteOrderer / Exporter: the palette passed in
    p_op,           \* ... the function applied to it, "none" before
    p_arg,          \* ... its second argument (sort mode, file name)
    p_out,          \* ... what it returned
    e_img,          \* ColorExtractor: the image passed in, downscaled
    e_n,            \* ... n_colors
    e_dull,         \* ... ignore_dull
    e_out,          \* ... what extract_colors_kmeans returned
    palette,        \* st.session_state.palette
    img_id,         \* st.session_state.img_id
    uploaded_file,  \* the file uploader's value: a file id, or NoFile
    run,            \* the last script run: the extract button's value,
                    \* whether the extraction branch ran, how the run ended
    last            \* the last callback called: its name, index, outcome
                    \* and the palette before it

palVars == <<p_in, p_op, p_arg, p_out>>

extVars == <<e_img, e_n, e_dull, e_out>>

sesVars == <<palette, img_id, uploaded_file, run, last>>

vars == <<keys, palVars, extVars, sesVars>>

(***************************************************************************)
(* Natural numbers of any size as sequences of limbs in base LimbBase,     *)
(* least significant limb first, no leading zero limb (zero is << >>).     *)
(* They carry the 53-bit significands of the Python floats the sort keys   *)
(* are computed in; a limb product stays below 2^31.                       *)
(***************************************************************************)
LimbBits == 14

LimbBase == 2 ^ LimbBits

RECURSIVE BNorm(_)
BNorm(a) ==
    IF a = << >> THEN << >>
    ELSE IF a[Len(a)] # 0 THEN a
    ELSE BNorm(SubSeq(a, 1, Len(a) - 1))

RECURSIVE FromNat(_)
FromNat(n) == IF n = 0 THEN << >> ELSE <<n % LimbBase>> \o FromNat(n \div LimbBase)

RECURSIVE BAddC(_, _, _)
BAddC(a, b, c) ==
    IF a = << >> /\ b = << >>
    THEN (IF c = 0 THEN << >> ELSE <<c>>)
    ELSE LET x == IF a = << >> THEN 0 ELSE Head(a)
             y == IF b = << >> THEN 0 ELSE Head(b)
             s == x + y + c
         IN  <<s % LimbBase>> \o BAddC(IF a = << >> THEN a ELSE Tail(a),
                                       IF b = << >> THEN b ELSE Tail(b),
                                       s \div LimbBase)

BAdd(a, b) == BAddC(a, b, 0)

\* a - b for a >= b, before normalisation; w is the borrow
RECURSIVE BSubB(_, _, _)
BSubB(a, b, w) ==
    IF a = << >> THEN << >>
    ELSE LET y == IF b = << >> THEN 0 ELSE Head(b)
             d == Head(a) - y - w
         IN  <<d % LimbBase>> \o BSubB(Tail(a),
                                       IF b = << >> THEN b ELSE Tail(b),
                                       IF d < 0 THEN 1 ELSE 0)

BSub(a, b) == BNorm(BSubB(a, b, 0))

\* -1, 0, 1 as a < b, a = b, a > b
RECURSIVE BCmpAt(_, _, _)
BCmpAt(a, b, i) ==
    IF i = 0 THEN 0
    ELSE IF a[i] > b[i] THEN 1
    ELSE IF a[i] < b[i] THEN -1
    ELSE BCmpAt(a, b, i - 1)

BCmp(a, b) ==
    IF Len(a) > Len(b) THEN 1
    ELSE IF Len(a) < Len(b) THEN -1
    ELSE BCmpAt(a, b, Len(a))

\* a * n for 0 <= n < LimbBase; c is the carry
RECURSIVE BMulLimb(_, _, _)
BMulLimb(a, n, c) ==
    IF a = << >> THEN (IF c = 0 THEN << >> ELSE <<c>>)
    ELSE LET p == Head(a) * n + c
         IN  <<p % LimbBase>> \o BMulLimb(Tail(a), n, p \div LimbBase)

BShlLimbs(a, k) == IF a = << >> THEN << >> ELSE [i \in 1..k |-> 0] \o a

RECURSIVE BMul(_, _)
BMul(a, b) ==
    IF b = << >> \/ a = << >> THEN << >>
    ELSE BAdd(BNorm(BMulLimb(a, Head(b), 0)), BShlLimbs(BMul(a, Tail(b)), 1))

\* a * 2^k
BShl(a, k) ==
    BShlLimbs(BNorm(BMulLimb(a, 2 ^ (k % LimbBits), 0)), k \div LimbBits)

\* floor(a / 2^k)
BShr(a, k) ==
    LET w == k \div LimbBits
        s == k % LimbBits
        n == Len(a) - w
    IN  IF n <= 0 THEN << >>
        ELSE BNorm([i \in 1..n |->
                      (a[w + i] \div 2 ^ s)
                      + (IF w + i < Len(a)
                         THEN (a[w + i + 1] % 2 ^ s) * 2 ^ (LimbBits - s)
                         ELSE 0)])

\* the number of bits of a
BitLen(a) ==
    IF a = << >> THEN 0
    ELSE (Len(a) - 1) * LimbBits
         + (CHOOSE k \in 1..LimbBits : 2 ^ (k - 1) <= a[Len(a)] /\ a[Len(a)] < 2 ^ k)

\* n more quotient bits of r / b for r < b: double, compare, subtract; the
\* bits are gathered in the integer q
RECURSIVE BDivSteps(_, _, _, _)
BDivSteps(r, b, n, q) ==
    IF n = 0 THEN [q |-> q, r |-> r]
    ELSE LET r2 == BAdd(r, r)
         IN  IF BCmp(r2, b) >= 0
             THEN BDivSteps(BSub(r2, b), b, n - 1, 2 * q + 1)
             ELSE BDivSteps(r2, b, n - 1, 2 * q)

\* the number of limbs of quotient produced below the point
DivLimbs == 4

\* floor(a * LimbBase^DivLimbs / b) and the remainder left, for a < 2b;
\* one limb of quotient at a time
BDivScaled(a, b) ==
    LET top == BCmp(a, b) >= 0
        r0  == IF top THEN BSub(a, b) ELSE a
        s1  == BDivSteps(r0, b, LimbBits, 0)
        s2  == BDivSteps(s1.r, b, LimbBits, 0)
        s3  == BDivSteps(s2.r, b, LimbBits, 0)
        s4  == BDivSteps(s3.r, b, LimbBits, 0)
    IN  [q |-> BNorm(<<s4.q, s3.q, s2.q, s1.q, IF top THEN 1 ELSE 0>>),
         r |-> s4.r]

(***************************************************************************)
(* Python floats (IEEE-754 binary64, round to nearest, ties to even):      *)
(* sg * m * 2^e with m of exactly MantBits bits, or m = << >> for 0.0.     *)
(* The values met here are far from the subnormal and overflow ranges.     *)
(***************************************************************************)
MantBits == 53

FZero == [sg |-> 1, m |-> << >>, e |-> 0]

FRound(sg, M, E) ==
    LET n == BitLen(M)
    IN  IF n = 0 THEN FZero
        ELSE IF n <= MantBits
        THEN [sg |-> sg, m |-> BShl(M, MantBits - n), e |-> E - (MantBits - n)]
        ELSE LET k    == n - MantBits
                 keep == BShr(M, k)
                 rest == BSub(M, BShl(keep, k))
                 half == BCmp(rest, BShl(<<1>>, k - 1))
                 up   == half > 0 \/ (half = 0 /\ keep[1] % 2 = 1)
                 m1   == IF up THEN BAdd(keep, <<1>>) ELSE keep
             IN  IF BitLen(m1) > MantBits
                 THEN [sg |-> sg, m |-> BShr(m1, 1), e |-> E + k + 1]
                 ELSE [sg |-> sg, m |-> m1, e |-> E + k]

FFromInt(n) == IF n < 0 THEN FRound(-1, FromNat(-n), 0) ELSE FRound(1, FromNat(n), 0)

FNeg(x) == [x EXCEPT !.sg = -x.sg]

FAdd(x, y) ==
    IF x.m = << >> THEN y
    ELSE IF y.m = << >> THEN x
    ELSE LET e == IF x.e < y.e THEN x.e ELSE y.e
             X == BShl(x.m, x.e - e)
             Y == BShl(y.m, y.e - e)
             c == BCmp(X, Y)
         IN  IF x.sg = y.sg THEN FRound(x.sg, BAdd(X, Y), e)
             ELSE IF c = 0 THEN FZero
             ELSE IF c > 0 THEN FRound(x.sg, BSub(X, Y), e)
             ELSE FRound(y.sg, BSub(Y, X), e)

FSub(x, y) == FAdd(x, FNeg(y))

FMul(x, y) == FRound(x.sg * y.sg, BMul(x.m, y.m), x.e + y.e)

\* the quotient to DivLimbs limbs below the point and one sticky bit for the
\* remainder: MantBits + 3 bits or more, so the rounding is exact
FDiv(x, y) ==
    IF x.m = << >> THEN FZero
    ELSE LET d == BDivScaled(x.m, y.m)
             M == BAdd(BShl(d.q, 1), IF d.r = << >> THEN << >> ELSE <<1>>)
         IN  FRound(x.sg * y.sg, M, x.e - y.e - DivLimbs * LimbBits - 1)

\* -1, 0, 1 as x < y, x = y, x > y
FCmp(x, y) ==
    IF x.m = << >> /\ y.m = << >> THEN 0
    ELSE IF x.m = << >> THEN -y.sg
    ELSE IF y.m = << >> THEN x.sg
    ELSE IF x.sg # y.sg THEN x.sg
    ELSE LET e == IF x.e < y.e THEN x.e ELSE y.e
         IN  x.sg * BCmp(BShl(x.m, x.e - e), BShl(y.m, y.e - e))

\* x % 1.0 for -1 < x < 1 (float_rem: fmod, then + 1.0 when the signs differ)
FMod1(x) ==
    IF x.m # << >> /\ x.sg = -1 THEN FAdd(x, FFromInt(1)) ELSE x

(***************************************************************************)
(* Colours.  A hex code is the sequence of its characters, "#" first; an   *)
(* RGB colour is a triple of integers.                                     *)
(***************************************************************************)
LowerHex == <<"0", "1", "2", "3", "4", "5", "6", "7",
              "8", "9", "a", "b", "c", "d", "e", "f">>

UpperHex == <<"0", "1", "2", "3", "4", "5", "6", "7",
              "8", "9", "A", "B", "C", "D", "E", "F">>

\* int(ch, 16) of one character: either case is accepted
HexValue(ch) == (CHOOSE i \in 1..16 : LowerHex[i] = ch \/ UpperHex[i] = ch) - 1

\* int(s, 16)
RECURSIVE ParseHex(_)
ParseHex(s) ==
    IF s = << >> THEN 0
    ELSE 16 * ParseHex(SubSeq(s, 1, Len(s) - 1)) + HexValue(s[Len(s)])

\* str.lstrip('#')
RECURSIVE LStripHash(_)
LStripHash(s) ==
    IF s # << >> /\ Head(s) = "#" THEN LStripHash(Tail(s)) ELSE s

hex_to_rgb(hex_code) ==
    LET h == LStripHash(hex_code)
    IN  <<ParseHex(SubSeq(h, 1, 2)), ParseHex(SubSeq(h, 3, 4)), ParseHex(SubSeq(h, 5, 6))>>

\* format(v, 'x') for v >= 0
RECURSIVE FormatHex(_)
FormatHex(v) ==
    IF v < 16 THEN <<LowerHex[v + 1]>>
    ELSE FormatHex(v \div 16) \o <<LowerHex[(v % 16) + 1]>>

\* format(v, '02x')
Format02x(v) == IF v < 16 THEN <<"0">> \o FormatHex(v) ELSE FormatHex(v)

\* a formatting without the zero padding of '02x'
rgb_to_hex_unpadded(rgb) == <<"#">> \o FormatHex(rgb[1]) \o FormatHex(rgb[2]) \o FormatHex(rgb[3])

rgb_to_hex(rgb) == <<"#">> \o Format02x(rgb[1]) \o Format02x(rgb[2]) \o Format02x(rgb[3])

(***************************************************************************)
(* Sort keys, computed in floats as the lambdas of auto_sort_colors do.    *)
(***************************************************************************)
\* the float literals 0.299, 0.587, 0.114: the doubles nearest to them
Luma299 == FDiv(FFromInt(299), FFromInt(1000))

Luma587 == FDiv(FFromInt(587), FFromInt(1000))

Luma114 == FDiv(FFromInt(114), FFromInt(1000))

\* c[0]*0.299 + c[1]*0.587 + c[2]*0.114
LumaKey(c) ==
    FAdd(FAdd(FMul(FFromInt(c[1]), Luma299), FMul(FFromInt(c[2]), Luma587)),
         FMul(FFromInt(c[3]), Luma114))

FMax(x, y) == IF FCmp(y, x) > 0 THEN y ELSE x

FMin(x, y) == IF FCmp(y, x) < 0 THEN y ELSE x

\* colorsys.rgb_to_hsv(r, g, b)[0]
rgb_to_hsv_h(r, g, b) ==
    LET maxc   == FMax(FMax(r, g), b)
        minc   == FMin(FMin(r, g), b)
        rangec == FSub(maxc, minc)
        rc     == FDiv(FSub(maxc, r), rangec)
        gc     == FDiv(FSub(maxc, g), rangec)
        bc     == FDiv(FSub(maxc, b), rangec)
        h      == IF FCmp(r, maxc) = 0 THEN FSub(bc, gc)
                  ELSE IF FCmp(g, maxc) = 0 THEN FSub(FAdd(FFromInt(2), rc), bc)
                  ELSE FSub(FAdd(FFromInt(4), gc), rc)
    IN  IF FCmp(minc, maxc) = 0 THEN FZero
        ELSE FMod1(FDiv(h, FFromInt(6)))

\* colorsys.rgb_to_hsv(c[0]/255, c[1]/255, c[2]/255)[0]
HueKey(c) ==
    rgb_to_hsv_h(FDiv(FFromInt(c[1]), FFromInt(255)),
                 FDiv(FFromInt(c[2]), FFromInt(255)),
                 FDiv(FFromInt(c[3]), FFromInt(255)))

\* the keys of the colours of S as auto_sort_colors computes them
KeyTable(S) == [luma |-> [c \in S |-> LumaKey(c)], hue |-> [c \in S |-> HueKey(c)]]

(***************************************************************************)
(* sorted(items, key=..., reverse=...): the keys are computed once, the    *)
(* sort is stable, and reverse=True reverses the list before and after an  *)
(* ascending stable sort.  An item is [k |-> key, v |-> value].            *)
(***************************************************************************)
Reverse(s) == [i \in 1..Len(s) |-> s[Len(s) + 1 - i]]

RECURSIVE InsertAfter(_, _)
InsertAfter(s, x) ==
    IF s = << >> THEN <<x>>
    ELSE IF FCmp(x.k, Head(s).k) < 0 THEN <<x>> \o s
    ELSE <<Head(s)>> \o InsertAfter(Tail(s), x)

RECURSIVE SortAsc(_)
SortAsc(s) ==
    IF s = << >> THEN << >>
    ELSE InsertAfter(SortAsc(SubSeq(s, 1, Len(s) - 1)), s[Len(s)])

\* a sort whose descending order is the ascending result reversed
sorted_reversing_result(items, reverse) ==
    LET r == IF reverse THEN Reverse(SortAsc(items)) ELSE SortAsc(items)
    IN  [i \in 1..Len(r) |-> r[i].v]

sorted(items, reverse) ==
    LET r == IF reverse THEN Reverse(SortAsc(Reverse(items))) ELSE SortAsc(items)
    IN  [i \in 1..Len(r) |-> r[i].v]

\* the sort modes of the selectbox, and one the code does not know
ModeNone == "no sort (manual)"

ModeLumaAsc == "brightness (dark -> bright)"

ModeLumaDesc == "brightness (bright -> dark)"

ModeHue == "hue (spectrum order)"

ModeReverse == "reverse-existing-order"

Modes == {ModeNone, ModeLumaAsc, ModeLumaDesc, ModeHue, ModeReverse}

\* a sorter that knows the reverse mode
auto_sort_colors_reversing(hex_colors, method) ==
    LET rgb_colors == [i \in 1..Len(hex_colors) |-> hex_to_rgb(hex_colors[i])]
        by_luma    == [i \in 1..Len(rgb_colors) |->
                         [k |-> keys.luma[rgb_colors[i]], v |-> rgb_colors[i]]]
        by_hue     == [i \in 1..Len(rgb_colors) |->
                         [k |-> keys.hue[rgb_colors[i]], v |-> rgb_colors[i]]]
        hexes(rgb_sorted) == [i \in 1..Len(rgb_sorted) |-> rgb_to_hex(rgb_sorted[i])]
    IN  IF method = ModeLumaAsc THEN hexes(sorted(by_luma, FALSE))
        ELSE IF method = ModeLumaDesc THEN hexes(sorted(by_luma, TRUE))
        ELSE IF method = ModeHue THEN hexes(sorted(by_hue, FALSE))
        ELSE IF method = ModeReverse THEN Reverse(hex_colors)
        ELSE hex_colors

auto_sort_colors(hex_colors, method) ==
    LET rgb_colors == [i \in 1..Len(hex_colors) |-> hex_to_rgb(hex_colors[i])]
        by_luma    == [i \in 1..Len(rgb_colors) |->
                         [k |-> keys.luma[rgb_colors[i]], v |-> rgb_colors[i]]]
        by_hue     == [i \in 1..Len(rgb_colors) |->
                         [k |-> keys.hue[rgb_colors[i]], v |-> rgb_colors[i]]]
        hexes(rgb_sorted) == [i \in 1..Len(rgb_sorted) |-> rgb_to_hex(rgb_sorted[i])]
    IN  IF method = ModeLumaAsc THEN hexes(sorted(by_luma, FALSE))
        ELSE IF method = ModeLumaDesc THEN hexes(sorted(by_luma, TRUE))
        ELSE IF method = ModeHue THEN hexes(sorted(by_hue, FALSE))
        ELSE hex_colors

(***************************************************************************)
(* Export.  A text is the sequence of its characters.                      *)
(***************************************************************************)
\* str(n) for n >= 0
RECURSIVE FormatDec(_)
FormatDec(n) ==
    IF n < 10 THEN <<LowerHex[n + 1]>>
    ELSE FormatDec(n \div 10) \o <<LowerHex[(n % 10) + 1]>>

RECURSIVE generate_clr_from(_, _)
generate_clr_from(hex_colors, idx) ==
    IF idx >= Len(hex_colors) THEN << >>
    ELSE LET rgb == hex_to_rgb(hex_colors[idx + 1])
         IN  FormatDec(idx + 1) \o <<" ">> \o FormatDec(rgb[1]) \o <<" ">>
             \o FormatDec(rgb[2]) \o <<" ">> \o FormatDec(rgb[3]) \o <<"\n">>
             \o generate_clr_from(hex_colors, idx + 1)

\* a ramp text whose lines are numbered from 0
generate_clr_content_from_zero(hex_colors) ==
    LET line(i) == LET rgb == hex_to_rgb(hex_colors[i])
                   IN  FormatDec(i - 1) \o <<" ">> \o FormatDec(rgb[1]) \o <<" ">>
                       \o FormatDec(rgb[2]) \o <<" ">> \o FormatDec(rgb[3]) \o <<"\n">>
        lines[i \in 0..Len(hex_colors)] == IF i = 0 THEN << >> ELSE lines[i - 1] \o line(i)
    IN  lines[Len(hex_colors)]

generate_clr_content(hex_colors) == generate_clr_from(hex_colors, 0)

\* the names the module binds by its import statements
ImportedNames == {"st", "np", "Image", "KMeans", "colorsys"}

\* the JSON download block: json_data, then json.dumps(json_data, indent=2)
json_export(colors, filename) ==
    LET json_data == <<[name     |-> filename,
                        category |-> "Extracted",
                        tags     |-> <<"User Image">>,
                        colors   |-> colors]>>
    IN  IF "json" \in ImportedNames
        THEN [st |-> "ok", val |-> json_data]
        ELSE [st |-> "NameError"]

(***************************************************************************)
(* Extraction.  An image is [chans, px]: px the pixels of the downscaled   *)
(* image in row order, each a tuple of chans channel values.  The grid of  *)
(* 150 x 150 pixels is scaled down to NPix pixels; like 150 * 150, NPix is *)
(* a multiple of 3, so that the values of a 4-channel image regroup into   *)
(* triples.                                                                *)
(***************************************************************************)
NPix == 3

RECURSIVE Flatten(_)
Flatten(px) == IF px = << >> THEN << >> ELSE Head(px) \o Flatten(Tail(px))

\* ndarray.reshape(-1, 3) of an array of the values v: rows of three
Reshape3(v) == [i \in 1..(Len(v) \div 3) |-> <<v[3 * i - 2], v[3 * i - 1], v[3 * i]>>]

\* ar[:, :, :3]
StripAlpha(px) == [i \in 1..Len(px) |-> SubSeq(px[i], 1, 3)]

\* np.std(row) > 10 for a row of three values: the variance
\* (3 * sum of squares - square of sum) / 9 is above 100
StdAbove10(row) ==
    LET sum == row[1] + row[2] + row[3]
        sq  == row[1] * row[1] + row[2] * row[2] + row[3] * row[3]
    IN  3 * sq - sum * sum > 900

\* a filter that never goes back to the unfiltered rows
dull_filter_no_fallback(image, ar, n_colors) ==
    [ar |-> SelectSeq(ar, StdAbove10), fallback |-> FALSE]

\* the ignore_dull block: keep the rows of ar whose std is above 10, and go
\* back to the image when fewer than n_colors are left
dull_filter(image, ar, n_colors) ==
    LET kept == SelectSeq(ar, StdAbove10)
    IN  IF Len(kept) < n_colors
        THEN [ar |-> Reshape3(Flatten(image.px)), fallback |-> TRUE]
        ELSE [ar |-> kept, fallback |-> FALSE]

\* the labelings that leave none of n clusters empty
Labelings(len, n) ==
    {lab \in [1..len -> 1..n] : \A k \in 1..n : \E i \in 1..len : lab[i] = k}

RECURSIVE SumOver(_, _, _)
SumOver(ar, idx, ch) ==
    IF idx = {} THEN 0
    ELSE LET i == CHOOSE i \in idx : TRUE
         IN  ar[i][ch] + SumOver(ar, idx \ {i}, ch)

\* int(c) for one channel of a centre: the centre is the mean of the rows
\* of its cluster, computed in floats on data shifted by the column means
\* and shifted back.  Rows that are all equal give their value exactly and
\* a fractional mean is truncated; a whole mean m of differing rows can
\* come out a rounding error below m, which int() truncates to m - 1.
CentreInts(ar, idx, ch) ==
    LET sum == SumOver(ar, idx, ch)
        cnt == Cardinality(idx)
    IN  IF sum % cnt = 0 /\ (\E i, j \in idx : ar[i][ch] # ar[j][ch])
        THEN {sum \div cnt, (sum \div cnt) - 1}
        ELSE {sum \div cnt}

\* KMeans(n_clusters=n).fit(ar).cluster_centers_, each centre through
\* tuple(map(int, c)): which rows a cluster gets depends on the random
\* initialisation
KMeansCentres(ar, n) ==
    UNION { LET idx(k) == {i \in 1..Len(ar) : lab[i] = k}
                cs(k)  == {<<r, g, b>> : r \in CentreInts(ar, idx(k), 1),
                                         g \in CentreInts(ar, idx(k), 2),
                                         b \in CentreInts(ar, idx(k), 3)}
            IN  {c \in [1..n -> UNION {cs(k) : k \in 1..n}] :
                    \A k \in 1..n : c[k] \in cs(k)}
            : lab \in Labelings(Len(ar), n) }

\* the results extract_colors_kmeans can return: the colours as integer
\* triples and as hex codes, with the rows handed to the clustering step
extract_colors_kmeans(image, n_colors, ignore_dull) ==
    LET ar0  == IF image.chans > 3 THEN StripAlpha(image.px) ELSE image.px
        ar1  == Reshape3(Flatten(ar0))
        f    == IF ignore_dull THEN dull_filter(image, ar1, n_colors)
                ELSE [ar |-> ar1, fallback |-> FALSE]
        ar   == f.ar
        done(colors) == [st       |-> "ok",
                         colors   |-> colors,
                         val      |-> [i \in 1..Len(colors) |-> rgb_to_hex(colors[i])],
                         fit      |-> ar,
                         fallback |-> f.fallback]
    IN  IF Len(ar) > n_colors
        THEN IF n_colors < 1
             THEN {[st |-> "error", exc |-> "InvalidParameterError",
                    fit |-> ar, fallback |-> f.fallback]}
             ELSE {done(c) : c \in KMeansCentres(ar, n_colors)}
        ELSE {done(SubSeq(ar, 1, IF n_colors < Len(ar) THEN n_colors ELSE Len(ar)))}

(***************************************************************************)
(* The callbacks on the session palette.  A list index is a Python index:  *)
(* -len .. len-1 are valid, a negative one counts from the end, any other  *)
(* raises IndexError.  Each callback gives the palette it leaves and the   *)
(* exception it raised, if any.                                            *)
(***************************************************************************)
ValidIndex(lst, i) == -Len(lst) <= i /\ i < Len(lst)

\* the position, from 1, that lst[i] names
Position(lst, i) == IF i < 0 THEN Len(lst) + i + 1 ELSE i + 1

\* lst[a], lst[b] = lst[b], lst[a]: both reads come first, then lst[a] and
\* lst[b] are assigned in this order
swap_items(lst, a, b) ==
    IF ~ValidIndex(lst, b) \/ ~ValidIndex(lst, a)
    THEN [pal |-> lst, exc |-> "IndexError"]
    ELSE LET pa == Position(lst, a)
             pb == Position(lst, b)
             l1 == [lst EXCEPT ![pa] = lst[pb]]
         IN  [pal |-> [l1 EXCEPT ![pb] = lst[pa]], exc |-> "none"]

delete_color(lst, index) ==
    IF 0 <= index /\ index < Len(lst)
    THEN [pal |-> SubSeq(lst, 1, index) \o SubSeq(lst, index + 2, Len(lst)),
          exc |-> "none"]
    ELSE [pal |-> lst, exc |-> "none"]

move_left(lst, index) ==
    IF index > 0 THEN swap_items(lst, index, index - 1)
    ELSE [pal |-> lst, exc |-> "none"]

move_right(lst, index) ==
    IF index < Len(lst) - 1 THEN swap_items(lst, index, index + 1)
    ELSE [pal |-> lst, exc |-> "none"]

update_color_value(lst, index, new_color) ==
    IF ValidIndex(lst, index)
    THEN [pal |-> [lst EXCEPT ![Position(lst, index)] = new_color], exc |-> "none"]
    ELSE [pal |-> lst, exc |-> "IndexError"]

NoFile == "None"

(***************************************************************************)
(* The script.  A script run reads the widgets, runs the extraction block  *)
(* and renders the editor and the export section.                          *)
(***************************************************************************)
\* a guard that enters the extraction block in every run with a file
extraction_due_whenever_file(file, extract_btn, stored_id) ==
    file # NoFile

\* the extraction block is entered: a file is uploaded, and the button was
\* pressed or the file is not the one img_id names
extraction_due(file, extract_btn, stored_id) ==
    file # NoFile /\ (extract_btn \/ stored_id # file)

\* the block "if uploaded_file:" of a run, for the image behind the file
\* and the slider and checkbox values read in this run: the session state
\* it leaves
extraction_block(pal, stored_id, file, extract_btn, image, n_colors, ignore_dull) ==
    IF extraction_due(file, extract_btn, stored_id)
    THEN { IF r.st = "ok"
           THEN [palette   |-> auto_sort_colors(r.val, ModeLumaAsc),
                 img_id    |-> file,
                 extracted |-> TRUE,
                 exc       |-> "none"]
           ELSE [palette   |-> pal,
                 img_id    |-> stored_id,
                 extracted |-> FALSE,
                 exc       |-> r.exc]
           : r \in extract_colors_kmeans(image, n_colors, ignore_dull) }
    ELSE {[palette |-> pal, img_id |-> stored_id, extracted |-> FALSE, exc |-> "none"]}

\* the editor and export section of a run that got past the extraction
\* block with session state x: rendered for a non-empty palette only, the
\* ramp text first, then the JSON block
render(x, filename) ==
    IF x.exc # "none" \/ x.palette = << >> THEN x
    ELSE LET clr_data == generate_clr_content(x.palette)
             js       == json_export(x.palette, filename)
         IN  [x EXCEPT !.exc = IF js.st = "ok" THEN "none" ELSE js.st]

(***************************************************************************)
(* Each specification below drives one part of the program; the variables  *)
(* of the other parts rest at these values.                                *)
(***************************************************************************)
Unset == [st |-> "unset"]

NoImage == [chans |-> 0, px |-> << >>]

PalIdle ==
    /\ p_in = << >>
    /\ p_op = "idle"
    /\ p_arg = ""
    /\ p_out = Unset

ExtIdle ==
    /\ e_img = NoImage
    /\ e_n = 0
    /\ e_dull = FALSE
    /\ e_out = Unset

NoRun == [btn |-> FALSE, extracted |-> FALSE, exc |-> "none"]

NoCall == [op |-> "none", index |-> 0, exc |-> "none", prev |-> << >>]

SesIdle ==
    /\ palette = << >>
    /\ img_id = NoFile
    /\ uploaded_file = NoFile
    /\ run = NoRun
    /\ last = NoCall

(***************************************************************************)
(* SpecPalette: auto_sort_colors, generate_clr_content and the JSON block  *)
(* applied to every palette of up to MaxLen colours of a small pool.  The  *)
(* pool pairs each hex code with the colour it denotes: two codes of one   *)
(* colour in different case, two colours of equal float luma, two colours  *)
(* whose lumas are equal as real numbers and differ as floats, colours of  *)
(* equal hue.                                                              *)
(***************************************************************************)
MaxLen == 3

PoolTable ==
    { [hex |-> <<"#", "0", "0", "0", "0", "0", "0">>, rgb |-> <<0, 0, 0>>],
      [hex |-> <<"#", "f", "f", "0", "0", "0", "0">>, rgb |-> <<255, 0, 0>>],
      [hex |-> <<"#", "F", "F", "0", "0", "0", "0">>, rgb |-> <<255, 0, 0>>],
      [hex |-> <<"#", "0", "0", "0", "0", "2", "6">>, rgb |-> <<0, 0, 38>>],
      [hex |-> <<"#", "0", "b", "0", "1", "0", "4">>, rgb |-> <<11, 1, 4>>],
      [hex |-> <<"#", "0", "0", "0", "0", "2", "2">>, rgb |-> <<0, 0, 34>>],
      [hex |-> <<"#", "0", "b", "0", "1", "0", "0">>, rgb |-> <<11, 1, 0>>] }

PoolHex == {e.hex : e \in PoolTable}

PoolRGB == {e.rgb : e \in PoolTable}

Palettes == UNION {[1..n -> PoolHex] : n \in 0..MaxLen}

FileNames == {"extracted_palette", "test"}

InitPalette ==
    /\ keys = KeyTable(PoolRGB)
    /\ p_in \in Palettes
    /\ p_op = "none"
    /\ p_arg = ""
    /\ p_out = Unset
    /\ ExtIdle
    /\ SesIdle

Reorder ==
    /\ p_op = "none"
    /\ \E mode \in Modes :
          /\ p_op' = "reorder"
          /\ p_arg' = mode
          /\ p_out' = [st |-> "ok", val |-> auto_sort_colors(p_in, mode)]
    /\ UNCHANGED <<keys, p_in, extVars, sesVars>>

ToRampText ==
    /\ p_op = "none"
    /\ p_op' = "ramp"
    /\ p_out' = [st |-> "ok", val |-> generate_clr_content(p_in)]
    /\ UNCHANGED <<keys, p_in, p_arg, extVars, sesVars>>

\* the export section is rendered only for a non-empty palette
ToJson ==
    /\ p_op = "none"
    /\ p_in # << >>
    /\ \E filename \in FileNames :
          /\ p_op' = "json"
          /\ p_arg' = filename
          /\ p_out' = json_export(p_in, filename)
    /\ UNCHANGED <<keys, p_in, extVars, sesVars>>

NextPalette == Reorder \/ ToRampText \/ ToJson

SpecPalette == InitPalette /\ [][NextPalette]_vars

\* the colour a hex code of the pool denotes, <<-1, -1, -1>> for any other text
RGBOf(hex) ==
    IF \E e \in PoolTable : e.hex = hex
    THEN (CHOOSE e \in PoolTable : e.hex = hex).rgb
    ELSE <<-1, -1, -1>>

RGBsOf(pal) == [i \in 1..Len(pal) |-> RGBOf(pal[i])]

Count(s, x) == Cardinality({i \in 1..Len(s) : s[i] = x})

SameMultiset(s, t) ==
    /\ Len(s) = Len(t)
    /\ \A i \in 1..Len(s) : Count(s, s[i]) = Count(t, s[i])

\* C1: whatever the mode, the palette auto_sort_colors returns holds the same
\* multiset of RGB colours as the palette passed in.
C1_PermutesOnly ==
    p_op = "reorder" => SameMultiset(RGBsOf(p_out.val), RGBsOf(p_in))

C1_Witness ==
    /\ p_op = "reorder"
    /\ p_arg = ModeLumaDesc
    /\ Len(p_in) = 3
    /\ p_in[1] = p_in[3]
    /\ RGBsOf(p_out.val) # RGBsOf(p_in)

\* the key of colour c under a sort mode, as the code computes it
KeyOf(mode, c) == IF mode = ModeHue THEN keys.hue[c] ELSE keys.luma[c]

\* 1000 times the luma of c as a real number
ExactLuma(c) == 299 * c[1] + 587 * c[2] + 114 * c[3]

Rearrangements(n) == {f \in [1..n -> 1..n] : \A i, j \in 1..n : f[i] = f[j] => i = j}

\* out is the stable sort of in by the key of mode: some rearrangement f of
\* the positions gives out, runs along the keys in the direction of the
\* mode, and keeps equal keys in their input order
IsStableSort(in, out, mode) ==
    LET n   == Len(in)
        dir == IF mode = ModeLumaDesc THEN -1 ELSE 1
    IN  /\ Len(out) = n
        /\ \E f \in Rearrangements(n) :
              /\ \A i \in 1..n : out[i] = in[f[i]]
              /\ \A i \in 1..n : \A j \in (i + 1)..n :
                    LET c == dir * FCmp(KeyOf(mode, in[f[i]]), KeyOf(mode, in[f[j]]))
                    IN  c < 0 \/ (c = 0 /\ f[i] < f[j])

SortModes == {ModeLumaAsc, ModeLumaDesc, ModeHue}

\* C4: under each of the three sort modes the result is the stable sort of
\* the palette by that mode's key (key order along adjacent entries, equal
\* keys in input order, also when descending); the real-valued luma never
\* runs against the direction either; and sorting the result again by the
\* same mode returns it unchanged.
C4_StableSortByKey ==
    (p_op = "reorder" /\ p_arg \in SortModes) =>
        LET out == p_out.val
            rgb == RGBsOf(out)
        IN  /\ IsStableSort(RGBsOf(p_in), rgb, p_arg)
            /\ \A i \in 1..Len(out) : out[i] = rgb_to_hex(rgb[i])
            /\ \A i \in 1..(Len(out) - 1) :
                  /\ p_arg = ModeLumaAsc => ExactLuma(rgb[i]) <= ExactLuma(rgb[i + 1])
                  /\ p_arg = ModeLumaDesc => ExactLuma(rgb[i]) >= ExactLuma(rgb[i + 1])
            /\ auto_sort_colors(out, p_arg) = out

\* a descending sort that had to keep two distinct colours of equal key in
\* their input order, behind a brighter colour that came last
C4_Witness ==
    /\ p_op = "reorder"
    /\ p_arg = ModeLumaDesc
    /\ RGBsOf(p_in) = <<<<0, 0, 38>>, <<11, 1, 4>>, <<255, 0, 0>>>>
    /\ RGBsOf(p_out.val) = <<<<255, 0, 0>>, <<0, 0, 38>>, <<11, 1, 4>>>>

RECURSIVE Segments(_, _)
Segments(t, sep) ==
    IF t = << >> THEN << >>
    ELSE IF \E k \in 1..Len(t) : t[k] = sep
    THEN LET k == CHOOSE k \in 1..Len(t) : t[k] = sep /\ \A j \in 1..(k - 1) : t[j] # sep
         IN  <<SubSeq(t, 1, k - 1)>> \o Segments(SubSeq(t, k + 1, Len(t)), sep)
    ELSE <<t>>

Digits == {"0", "1", "2", "3", "4", "5", "6", "7", "8", "9"}

\* a decimal integer without sign or leading zero
IsDecimal(tok) ==
    /\ tok # << >>
    /\ \A i \in 1..Len(tok) : tok[i] \in Digits
    /\ Len(tok) > 1 => tok[1] # "0"

RECURSIVE DecimalValue(_)
DecimalValue(tok) ==
    IF tok = << >> THEN 0
    ELSE 10 * DecimalValue(SubSeq(tok, 1, Len(tok) - 1))
         + (CHOOSE d \in 0..9 : LowerHex[d + 1] = tok[Len(tok)])

\* C6: the ramp text of a palette of N colours is N lines, each ended by a
\* newline, line i reading "<i> <R> <G> <B>" for the i-th colour in decimal
\* without leading zeros, single spaces between and none at the end; for
\* [#000000, #ff0000] it is exactly "1 0 0 0\n2 255 0 0\n", for the empty
\* palette the empty text.
C6_RampLines ==
    p_op = "ramp" =>
        LET t     == p_out.val
            n     == Len(p_in)
            lines == Segments(t, "\n")
        IN  /\ Len(lines) = n
            /\ n = 0 => t = << >>
            /\ n > 0 => t[Len(t)] = "\n"
            /\ \A i \in 1..n :
                  LET toks == Segments(lines[i] \o <<" ">>, " ")
                  IN  /\ lines[i] # << >>
                      /\ lines[i][Len(lines[i])] # " "
                      /\ Len(toks) = 4
                      /\ \A k \in 1..4 : IsDecimal(toks[k])
                      /\ DecimalValue(toks[1]) = i
                      /\ <<DecimalValue(toks[2]), DecimalValue(toks[3]),
                           DecimalValue(toks[4])>> = RGBOf(p_in[i])
            /\ RGBsOf(p_in) = <<<<0, 0, 0>>, <<255, 0, 0>>>> =>
                  t = <<"1", " ", "0", " ", "0", " ", "0", "\n",
                        "2", " ", "2", "5", "5", " ", "0", " ", "0", "\n">>

C6_Witness ==
    /\ p_op = "ramp"
    /\ RGBsOf(p_in) = <<<<0, 0, 0>>, <<255, 0, 0>>>>
    /\ Len(p_out.val) = 18

\* C7: for a non-empty palette and a name the JSON export completes and
\* yields an array of one object with the name, the fixed category, the
\* tags and the palette's colours in order.
C7_JsonExportCompletes ==
    p_op = "json" =>
        /\ p_out.st = "ok"
        /\ Len(p_out.val) = 1
        /\ p_out.val[1].name = p_arg
        /\ p_out.val[1].category = "Extracted"
        /\ p_out.val[1].tags = <<"User Image">>
        /\ p_out.val[1].colors = p_in

(***************************************************************************)
(* SpecExtract: extract_colors_kmeans applied to every image of NPix       *)
(* pixels drawn from a few pixel values (a gray, a near-gray, a saturated  *)
(* one; opaque or transparent when there is an alpha channel), for every   *)
(* n_colors the image has pixels for, filter on and off.                   *)
(***************************************************************************)
PixelsRGB == {<<128, 128, 128>>, <<120, 128, 136>>, <<255, 0, 0>>}

Alphas == {0, 255}

PixelsRGBA == {p \o <<a>> : p \in PixelsRGB, a \in Alphas}

Images ==
    {[chans |-> 3, px |-> px] : px \in [1..NPix -> PixelsRGB]}
    \cup {[chans |-> 4, px |-> px] : px \in [1..NPix -> PixelsRGBA]}

InitExtract ==
    /\ keys = KeyTable({})
    /\ e_img \in Images
    /\ e_n \in 0..NPix
    /\ e_dull \in BOOLEAN
    /\ e_out = Unset
    /\ PalIdle
    /\ SesIdle

Extract ==
    /\ e_out = Unset
    /\ e_img # NoImage
    /\ e_out' \in extract_colors_kmeans(e_img, e_n, e_dull)
    /\ UNCHANGED <<keys, e_img, e_n, e_dull, palVars, sesVars>>

NextExtract == Extract

SpecExtract == InitExtract /\ [][NextExtract]_vars

AllGray(image) == \A i \in 1..Len(image.px) : SubSeq(image.px[i], 1, 3) = <<128, 128, 128>>

C3_RejectsFewerThanTwo ==
    (e_out # Unset /\ e_n < 2) => e_out.st = "error"

\* C8: when the filter leaves fewer than n_colors rows, the rows handed to
\* clustering are the alpha-stripped RGB triples of the image's pixels, for
\* 3 and for 4 channels.
C8_FallbackIsUnfilteredRGB ==
    (e_out # Unset /\ e_out.fallback) =>
        e_out.fit = [i \in 1..Len(e_img.px) |-> SubSeq(e_img.px[i], 1, 3)]

(***************************************************************************)
(* SpecEdit: the four callbacks called, again and again, on a palette of   *)
(* up to MaxLen colours with any index from below -len to above len.       *)
(***************************************************************************)
EditHex ==
    { <<"#", "0", "0", "0", "0", "0", "0">>,
      <<"#", "f", "f", "0", "0", "0", "0">>,
      <<"#", "0", "0", "0", "0", "2", "6">> }

EditPalettes == UNION {[1..n -> EditHex] : n \in 0..MaxLen}

Indexes == (-(MaxLen + 1))..(MaxLen + 1)

InitEdit ==
    /\ keys = KeyTable({})
    /\ palette \in EditPalettes
    /\ img_id = NoFile
    /\ uploaded_file = NoFile
    /\ run = NoRun
    /\ last = NoCall
    /\ PalIdle
    /\ ExtIdle

Called(op, index, r) ==
    /\ palette' = r.pal
    /\ last' = [op |-> op, index |-> index, exc |-> r.exc, prev |-> palette]
    /\ UNCHANGED <<keys, img_id, uploaded_file, run, palVars, extVars>>

CallDeleteColor == \E i \in Indexes : Called("delete_color", i, delete_color(palette, i))

CallMoveLeft == \E i \in Indexes : Called("move_left", i, move_left(palette, i))

CallMoveRight == \E i \in Indexes : Called("move_right", i, move_right(palette, i))

CallUpdateColorValue ==
    \E i \in Indexes : \E c \in EditHex :
        Called("update_color_value", i, update_color_value(palette, i, c))

NextEdit == CallDeleteColor \/ CallMoveLeft \/ CallMoveRight \/ CallUpdateColorValue

SpecEdit == InitEdit /\ [][NextEdit]_vars

\* lst with the entries at positions i and j (from 0) exchanged
Exchanged(lst, i, j) ==
    [k \in 1..Len(lst) |-> IF k = i + 1 THEN lst[j + 1]
                           ELSE IF k = j + 1 THEN lst[i + 1]
                           ELSE lst[k]]

\* C9: a call of move_left(index) or move_right(index), whatever the index,
\* leaves the palette as it was or exchanges the entry at position index,
\* 0 <= index < length, with its left resp. right neighbour; so the length
\* and the multiset of colours stay, and no other two positions are
\* exchanged.
C9_MovesSwapNeighbours ==
    last.op \in {"move_left", "move_right"} =>
        LET n == Len(last.prev)
            j == IF last.op = "move_left" THEN last.index - 1 ELSE last.index + 1
        IN  /\ SameMultiset(palette, last.prev)
            /\ \/ palette = last.prev
               \/ /\ 0 <= last.index /\ last.index < n
                  /\ 0 <= j /\ j < n
                  /\ palette = Exchanged(last.prev, last.index, j)

(***************************************************************************)
(* Spec: the session.  One action per user event, each with the script     *)
(* run (or the two runs, where the script calls st.rerun()) it causes.     *)
(* Two files stand for the uploads: a saturated 4-channel image and an     *)
(* all-gray 3-channel one.  The slider's values are scaled with the image, *)
(* to 2 .. NPix.  The callbacks are reached through their buttons here;    *)
(* last, the record of a direct call, stays as it is.                      *)
(***************************************************************************)
Files == {"a.png", "b.png"}

FileImage(f) ==
    IF f = "a.png"
    THEN [chans |-> 4, px |-> <<<<255, 0, 0, 255>>, <<0, 0, 255, 255>>, <<0, 255, 0, 255>>>>]
    ELSE [chans |-> 3, px |-> <<<<128, 128, 128>>, <<128, 128, 128>>, <<128, 128, 128>>>>]

\* the export name: uploaded_file.name.split('.')[0] when there is a file
FileName(f) ==
    IF f = "a.png" THEN "a" ELSE IF f = "b.png" THEN "b" ELSE "extracted_palette"

SliderValues == 2..NPix

\* the colours the colour pickers are set to
PickedHex == { <<"#", "0", "0", "0", "0", "2", "6">>, <<"#", "f", "f", "f", "f", "0", "0">> }

\* the selectbox offers these four
SelectboxModes == {ModeNone, ModeLumaAsc, ModeLumaDesc, ModeHue}

\* every colour a session palette can hold
SessionRGB ==
    {hex_to_rgb(h) : h \in PickedHex}
    \cup UNION { UNION { {r.colors[i] : i \in 1..Len(r.colors)}
                         : r \in extract_colors_kmeans(FileImage(f), n, d) }
                 : f \in Files, n \in SliderValues, d \in BOOLEAN }

Init ==
    /\ keys = KeyTable(SessionRGB)
    /\ palette = << >>
    /\ img_id = NoFile
    /\ uploaded_file = NoFile
    /\ run = NoRun
    /\ last = NoCall
    /\ PalIdle
    /\ ExtIdle

\* the session states a whole script run can leave, from palette pal and
\* stored id, with the widgets as they are in this run
ScriptRuns(pal, stored_id, file, extract_btn) ==
    IF file = NoFile
    THEN {render([palette |-> pal, img_id |-> stored_id, extracted |-> FALSE,
                  exc |-> "none"], FileName(file))}
    ELSE { render(x, FileName(file))
           : x \in UNION { extraction_block(pal, stored_id, file, extract_btn,
                                            FileImage(file), n, d)
                           : n \in SliderValues, d \in BOOLEAN } }

\* the session after a run that left x
Ran(x, extract_btn) ==
    /\ palette' = x.palette
    /\ img_id' = x.img_id
    /\ run' = [btn |-> extract_btn, extracted |-> x.extracted, exc |-> x.exc]
    /\ UNCHANGED <<keys, last, palVars, extVars>>

\* a file is uploaded, replaced or removed
Upload ==
    \E f \in Files \cup {NoFile} :
        /\ f # uploaded_file
        /\ uploaded_file' = f
        /\ \E x \in ScriptRuns(palette, img_id, f, FALSE) : Ran(x, FALSE)

ClickExtract ==
    /\ uploaded_file' = uploaded_file
    /\ \E x \in ScriptRuns(palette, img_id, uploaded_file, TRUE) : Ran(x, TRUE)

\* the slider, the checkbox or the selectbox is changed
ChangeSetting ==
    /\ uploaded_file' = uploaded_file
    /\ \E x \in ScriptRuns(palette, img_id, uploaded_file, FALSE) : Ran(x, FALSE)

\* the sort button: with a palette the run sorts it and calls st.rerun()
\* before it reaches the extraction block; the new run is an ordinary one
ClickApplySort ==
    /\ uploaded_file' = uploaded_file
    /\ \E mode \in SelectboxModes :
          LET pal == IF palette # << >> THEN auto_sort_colors(palette, mode) ELSE palette
          IN  \E x \in ScriptRuns(pal, img_id, uploaded_file, FALSE) : Ran(x, FALSE)

\* a button of the editor grid: its callback, then an ordinary run
Clicked(r) ==
    /\ uploaded_file' = uploaded_file
    /\ \E x \in ScriptRuns(r.pal, img_id, uploaded_file, FALSE) : Ran(x, FALSE)

\* the grid shows a delete button for every entry
ClickDelete ==
    \E i \in 0..(Len(palette) - 1) : Clicked(delete_color(palette, i))

\* ... a left button for every entry but the first
ClickMoveLeft ==
    \E i \in 1..(Len(palette) - 1) : Clicked(move_left(palette, i))

\* ... a right button for every entry but the last
ClickMoveRight ==
    \E i \in 0..(Len(palette) - 2) : Clicked(move_right(palette, i))

\* a colour picker is set to another colour: the run gets past the
\* extraction block, updates the entry and calls st.rerun()
PickColor ==
    /\ uploaded_file' = uploaded_file
    /\ \E x1 \in ScriptRuns(palette, img_id, uploaded_file, FALSE) :
       \E i \in 0..(Len(x1.palette) - 1) : \E c \in PickedHex :
          /\ c # x1.palette[i + 1]
          /\ LET r == update_color_value(x1.palette, i, c)
             IN  \E x2 \in ScriptRuns(r.pal, x1.img_id, uploaded_file, FALSE) :
                    Ran([x2 EXCEPT !.extracted = x1.extracted \/ x2.extracted], FALSE)

Next ==
    \/ Upload
    \/ ClickExtract
    \/ ChangeSetting
    \/ ClickApplySort
    \/ ClickDelete
    \/ ClickMoveLeft
    \/ ClickMoveRight
    \/ PickColor

Spec == Init /\ [][Next]_vars

\* the weighted brightness of a hex code, times 1000, from its digits
HexLuma(h) ==
    LET d(i) == CHOOSE n \in 0..15 : LowerHex[n + 1] = h[i] \/ UpperHex[n + 1] = h[i]
    IN  299 * (16 * d(2) + d(3)) + 587 * (16 * d(4) + d(5)) + 114 * (16 * d(6) + d(7))

LumaAscending(pal) ==
    \A i \in 1..(Len(pal) - 1) : HexLuma(pal[i]) <= HexLuma(pal[i + 1])

\* pal2 is pal after one manual edit: an entry deleted, an entry replaced,
\* or the entries rearranged
OneEdit(pal, pal2) ==
    \/ \E i \in 1..Len(pal) :
          pal2 = SubSeq(pal, 1, i - 1) \o SubSeq(pal, i + 1, Len(pal))
    \/ /\ Len(pal2) = Len(pal)
       /\ \E i \in 1..Len(pal) : \A j \in 1..Len(pal) : j # i => pal2[j] = pal[j]
    \/ /\ Len(pal2) = Len(pal)
       /\ \E f \in Rearrangements(Len(pal)) : \A j \in 1..Len(pal) : pal2[j] = pal[f[j]]

\* C10: across script runs the palette is replaced by an extraction only
\* when a file is uploaded and the extract button was pressed or the file's
\* id differs from img_id; after such a run img_id is the file's id and the
\* palette is in ascending brightness; any other step leaves img_id alone
\* and the palette as it was or as one manual edit made it.
C10_ExtractionOnlyWhenDue ==
    [][ /\ run'.extracted =>
             /\ uploaded_file' # NoFile
             /\ run'.btn \/ img_id # uploaded_file'
             /\ img_id' = uploaded_file'
             /\ LumaAscending(palette')
        /\ ~run'.extracted =>
             /\ img_id' = img_id
             /\ palette' = palette \/ OneEdit(palette, palette')
      ]_vars

\* a run without extraction has kept an edited palette, one no extraction
\* leaves (it is not in ascending brightness), with the uploaded file
\* already recorded
C10_Witness ==
    /\ uploaded_file # NoFile
    /\ img_id = uploaded_file
    /\ ~run.extracted
    /\ palette # << >>
    /\ ~LumaAscending(palette)

=============================================================================
